---- MODULE Spec2Model ----
(***************************************************************************)
(* A model of pg-peek: the page stream reader read_all_pages and the page, *)
(* line-pointer and heap-tuple decoders of pg-peek-lib/src/lib.rs.         *)
(*                                                                         *)
(* The input file is a sequence of page-size blocks followed by an         *)
(* optional short trailing chunk.  A block is given by the header words    *)
(* and line-pointer words written into it and by the byte that fills the   *)
(* rest of it; BlockByte gives the block's bytes, and every decoder is     *)
(* modelled on those bytes, read through a cursor as the code reads them.  *)
(*                                                                         *)
(* TLC's integers are 32-bit signed, so the 64-bit log sequence number is  *)
(* kept as its two 32-bit halves, a line-pointer word as its two 16-bit    *)
(* halves, and the fill bytes are below 128 so that every u32 read fits.   *)
(***************************************************************************)
EXTENDS Integers, Sequences, FiniteSets, TLC

VARIABLES
    endianness,   \* the Endianness handed to read_all_pages
    blocks,       \* the full page-size blocks of the input, in file order
    tail,         \* length in bytes of the trailing chunk of the input (0: none)
    pos,          \* bytes of the input the reader has been handed so far
    buffer,       \* read_all_pages' buffer: [u8; DEFAULT_POSTGRES_PAGE_SIZE]
    pages,        \* read_all_pages' local vector of decoded pages
    pc,           \* "Reading" while the loop runs, "Done" when the call is over
    bytes_read,   \* outcome of the latest reader.read: Ok(n) or Err(_); "none" before
    decoded,      \* outcome of the latest PageLayout::from_reader (with its trace)
    result        \* what the call hands to its caller

vars == <<endianness, blocks, tail, pos, buffer, pages, pc, bytes_read, decoded, result>>

-----------------------------------------------------------------------------
(* Program constants *)

DEFAULT_POSTGRES_PAGE_SIZE == 8192

\* std::mem::size_of::<PageHeaderData>(): 8+2+2+2+2+2+2+4 bytes, alignment 8
SizeOfPageHeaderData == 24

\* std::mem::size_of::<HeapTupleHeaderData>(): 23 bytes of fields, alignment 4
SizeOfHeapTupleHeaderData == 24

\* the bytes HeapTupleHeaderData::read_from reads: 4+4+4+6+2+2+1
HeapTupleHeaderBytesRead == 23

\* size of one ItemIdData on disk ("assuming 4 bytes per ItemIdData")
ItemIdBytes == 4

LP_UNUSED == 0
LP_NORMAL == 1
LP_REDIRECT == 2
LP_DEAD == 3

Endiannesses == {"LittleEndian", "BigEndian"}

-----------------------------------------------------------------------------
(* Bounds of the model *)

\* the input holds at most MaxBlocks full blocks
MaxBlocks == 2

-----------------------------------------------------------------------------
(* Bytes of the input *)

Pow256(k) == IF k = 0 THEN 1 ELSE IF k = 1 THEN 256 ELSE IF k = 2 THEN 65536 ELSE 16777216

\* byte k (in file order) of the width-byte encoding of v under byte order e
EncByte(v, k, width, e) ==
    IF e = "LittleEndian"
    THEN (v \div Pow256(k)) % 256
    ELSE (v \div Pow256(width - 1 - k)) % 256

\* The packed 32-bit line-pointer word, kept as its 16-bit halves: offset in
\* bits 0..14, status in bits 15..16, length in bits 17..31.
Word(off, status, len) ==
    [lo |-> off + 32768 * (status % 2), hi |-> (status \div 2) + 2 * len]

\* byte k (in file order) of a 32-bit word under byte order e
WordByte(w, k, e) ==
    IF e = "LittleEndian"
    THEN IF k < 2 THEN EncByte(w.lo, k, 2, e) ELSE EncByte(w.hi, k - 2, 2, e)
    ELSE IF k < 2 THEN EncByte(w.hi, k, 2, e) ELSE EncByte(w.lo, k - 2, 2, e)

\* A block as written by the storage engine on a host of byte order e:
\* lower, upper, special at offsets 12, 14, 16; the packed line-pointer
\* words from offset 24; the other header bytes zero; every other byte
\* of the block equal to fill.
BlockByte(b, i, e) ==
    IF i < 12 THEN 0
    ELSE IF i < 14 THEN EncByte(b.lower, i - 12, 2, e)
    ELSE IF i < 16 THEN EncByte(b.upper, i - 14, 2, e)
    ELSE IF i < 18 THEN EncByte(b.special, i - 16, 2, e)
    ELSE IF i < 24 THEN 0
    ELSE IF i < 24 + 4 * Len(b.lps)
         THEN WordByte(b.lps[((i - 24) \div 4) + 1], (i - 24) % 4, e)
    ELSE b.fill

\* the block of the buffer before any read: [0u8; DEFAULT_POSTGRES_PAGE_SIZE]
ZeroBlock == [lower |-> 0, upper |-> 0, special |-> 0, lps |-> <<>>, fill |-> 0]

\* buffer: n bytes of the block just read, over the block read before
BufByte(buf, i, e) ==
    IF i < buf.n THEN BlockByte(buf.new, i, e) ELSE BlockByte(buf.old, i, e)

\* the bytes of the buffer, as the slice the cursor ranges over
Bytes(buf, e) == [i \in 0..(DEFAULT_POSTGRES_PAGE_SIZE - 1) |-> BufByte(buf, i, e)]

-----------------------------------------------------------------------------
(* Primitive reads over the cursor: the value read from slice m at cursor  *)
(* position p under byte order e                                           *)

read_u8(m, p) == m[p]

read_u16(m, p, e) ==
    IF e = "LittleEndian" THEN m[p] + 256 * m[p + 1] ELSE 256 * m[p] + m[p + 1]

read_u32(m, p, e) ==
    IF e = "LittleEndian"
    THEN m[p] + 256 * m[p + 1] + 65536 * m[p + 2] + 16777216 * m[p + 3]
    ELSE 16777216 * m[p] + 65536 * m[p + 1] + 256 * m[p + 2] + m[p + 3]

\* a u64 as its two 32-bit halves
read_u64(m, p, e) ==
    IF e = "LittleEndian"
    THEN [hi |-> read_u32(m, p + 4, e), lo |-> read_u32(m, p, e)]
    ELSE [hi |-> read_u32(m, p, e), lo |-> read_u32(m, p + 4, e)]

\* Cursor::read_exact of n bytes at position p succeeds iff they lie in the buffer
CanRead(p, n) == p + n <= DEFAULT_POSTGRES_PAGE_SIZE

ReadBytes(m, p, n) == [k \in 1..n |-> m[p + k - 1]]

-----------------------------------------------------------------------------
(* ItemIdData::from_reader: two 16-bit reads, each masked on its own *)

\* LPFlags::from_bits_truncate: the known bits are 0x00|0x01|0x02|0x03
LPFlags_from_bits_truncate(raw) == raw % 4

ItemIdData_from_reader(m, p, e) ==
    LET first_part == read_u16(m, p, e)
        second_part == read_u16(m, p + 2, e)
    IN [lp_off |-> first_part % 32768,
        lp_flags |-> LPFlags_from_bits_truncate((first_part \div 32768) % 4),
        lp_len |-> second_part % 32768]

-----------------------------------------------------------------------------
(* read_page_header: eight fixed-width reads, 24 bytes, no validation *)

\* PageFlags::from_bits_truncate: the known bits are 0x0001|0x0002|0x0004
PageFlags_from_bits_truncate(raw) == raw % 8

read_page_header(m, e) ==
    [pd_lsn |-> read_u64(m, 0, e),
     pd_checksum |-> read_u16(m, 8, e),
     pd_flags |-> PageFlags_from_bits_truncate(read_u16(m, 10, e)),
     pd_lower |-> read_u16(m, 12, e),
     pd_upper |-> read_u16(m, 14, e),
     pd_special |-> read_u16(m, 16, e),
     pd_pagesize_version |-> read_u16(m, 18, e),
     pd_prune_xid |-> read_u32(m, 20, e)]

-----------------------------------------------------------------------------
(* read_item_identifiers *)

\* the count with the header size left out of it
num_identifiers_no_header(pd_lower) == pd_lower \div ItemIdBytes

\* (*header.pd_lower as usize - size_of::<PageHeaderData>()) / 4, for a
\* pd_lower of at least the header size
num_identifiers(pd_lower) == (pd_lower - SizeOfPageHeaderData) \div ItemIdBytes

\* The subtraction is on usize.  With pd_lower below the header size a build
\* with overflow checks panics at the subtraction; a build without them wraps
\* to about 2^64, and Vec::with_capacity of a quarter of that many 6-byte
\* records panics with a capacity overflow.  Either way the call panics.
read_item_identifiers(m, header, e) ==
    IF header.pd_lower < SizeOfPageHeaderData
    THEN [tag |-> "Panic", kind |-> "", ids |-> <<>>, pos |-> SizeOfPageHeaderData]
    ELSE LET n == num_identifiers(header.pd_lower)
             end == SizeOfPageHeaderData + ItemIdBytes * n
         IN IF CanRead(SizeOfPageHeaderData, ItemIdBytes * n)
            THEN [tag |-> "Ok", kind |-> "",
                  ids |-> [k \in 1..n |->
                      ItemIdData_from_reader(m,
                          SizeOfPageHeaderData + ItemIdBytes * (k - 1), e)],
                  pos |-> end]
            ELSE [tag |-> "Err", kind |-> "UnexpectedEof", ids |-> <<>>,
                  pos |-> DEFAULT_POSTGRES_PAGE_SIZE]

-----------------------------------------------------------------------------
(* HeapTupleHeaderData::read_from and HeapTuple::from_reader *)

\* Infomask2::from_bits_truncate: known bits 0x07FF|0x2000|0x4000|0x8000|0xE000
Infomask2_from_bits_truncate(raw) == (raw % 2048) + 8192 * (raw \div 8192)

\* Infomask::from_bits_truncate: the named flags cover all 16 bits
Infomask_from_bits_truncate(raw) == raw

HeapTupleHeaderData_read_from(m, p, e) ==
    [t_xmin |-> read_u32(m, p, e),
     t_xmax |-> read_u32(m, p + 4, e),
     t_cid |-> read_u32(m, p + 8, e),
     t_ctid |-> ReadBytes(m, p + 12, 6),
     t_infomask2 |-> Infomask2_from_bits_truncate(read_u16(m, p + 18, e)),
     t_infomask |-> Infomask_from_bits_truncate(read_u16(m, p + 20, e)),
     t_hoff |-> read_u8(m, p + 22)]

NoTupleHeader ==
    [t_xmin |-> 0, t_xmax |-> 0, t_cid |-> 0, t_ctid |-> <<>>,
     t_infomask2 |-> 0, t_infomask |-> 0, t_hoff |-> 0]

\* total_length as usize - size_of::<HeapTupleHeaderData>()
data_length(total_length) == total_length - SizeOfHeapTupleHeaderData

\* The header's 23 bytes are read first.  The subtraction is on usize: with
\* total_length below 24 a build with overflow checks panics at it; a build
\* without them wraps to about 2^64 and vec![0u8; n] panics with a capacity
\* overflow.  Either way the call panics.  pos is the cursor after the call.
HeapTuple_from_reader(m, p, total_length, e) ==
    IF ~CanRead(p, HeapTupleHeaderBytesRead)
    THEN [tag |-> "Err", kind |-> "UnexpectedEof", header_read |-> FALSE,
          header |-> NoTupleHeader, data |-> <<>>,
          pos |-> DEFAULT_POSTGRES_PAGE_SIZE]
    ELSE LET header == HeapTupleHeaderData_read_from(m, p, e)
             q == p + HeapTupleHeaderBytesRead
         IN IF total_length < SizeOfHeapTupleHeaderData
            THEN [tag |-> "Panic", kind |-> "", header_read |-> TRUE,
                  header |-> header, data |-> <<>>, pos |-> q]
            ELSE IF ~CanRead(q, data_length(total_length))
            THEN [tag |-> "Err", kind |-> "UnexpectedEof", header_read |-> TRUE,
                  header |-> header, data |-> <<>>,
                  pos |-> DEFAULT_POSTGRES_PAGE_SIZE]
            ELSE [tag |-> "Ok", kind |-> "", header_read |-> TRUE,
                  header |-> header,
                  data |-> ReadBytes(m, q, data_length(total_length)),
                  pos |-> q + data_length(total_length)]

-----------------------------------------------------------------------------
(* PageLayout::from_reader *)

\* One entry of the decoder's trace per line pointer the loop has handled:
\* the directory slot, where the cursor stood before and after, and, for a
\* NORMAL slot, the outcome of HeapTuple::from_reader and the hoff it read.
TraceEntry(slot, id, start, end, tag, header_read, hoff, payload) ==
    [slot |-> slot, lp_flags |-> id.lp_flags, lp_len |-> id.lp_len,
     start |-> start, end |-> end, tag |-> tag,
     header_read |-> header_read, t_hoff |-> hoff, payload |-> payload]

\* the loop over &item_identifiers, from slot k with the cursor at p
RECURSIVE ReadItems(_, _, _, _, _, _, _)
ReadItems(m, e, ids, k, p, items, trace) ==
    IF k > Len(ids)
    THEN [tag |-> "Ok", kind |-> "", items |-> items, trace |-> trace, pos |-> p]
    ELSE LET item_id == ids[k] IN
         IF item_id.lp_flags = LP_NORMAL
         THEN LET t == HeapTuple_from_reader(m, p, item_id.lp_len, e)
                  entry == TraceEntry(k, item_id, p, t.pos, t.tag, t.header_read,
                                      t.header.t_hoff, Len(t.data))
              IN IF t.tag = "Ok"
                 THEN ReadItems(m, e, ids, k + 1, t.pos,
                                Append(items, [header |-> t.header, data |-> t.data]),
                                Append(trace, entry))
                 ELSE [tag |-> t.tag, kind |-> t.kind, items |-> items,
                       trace |-> Append(trace, entry), pos |-> t.pos]
         ELSE \* skip non-NORMAL items based on their length
              IF CanRead(p, item_id.lp_len)
              THEN ReadItems(m, e, ids, k + 1, p + item_id.lp_len, items,
                             Append(trace, TraceEntry(k, item_id, p, p + item_id.lp_len,
                                                      "Skip", FALSE, 0, 0)))
              ELSE [tag |-> "Err", kind |-> "UnexpectedEof", items |-> items,
                    trace |-> Append(trace, TraceEntry(k, item_id, p,
                                 DEFAULT_POSTGRES_PAGE_SIZE, "Err", FALSE, 0, 0)),
                    pos |-> DEFAULT_POSTGRES_PAGE_SIZE]

\* tag "Ok": Ok(PageLayout{..}); "Err": Err(io::Error of the kind); "Panic".
\* header, item_identifiers and trace say how far the decoder got.
PageLayout_from_reader(m, e) ==
    LET header == read_page_header(m, e)
        ii == read_item_identifiers(m, header, e)
    IN IF ii.tag # "Ok"
       THEN [tag |-> ii.tag, kind |-> ii.kind, header |-> header,
             item_identifiers |-> <<>>, items |-> <<>>, special_space |-> "None",
             trace |-> <<>>]
       ELSE LET r == ReadItems(m, e, ii.ids, 1, ii.pos, <<>>, <<>>)
            IN [tag |-> r.tag, kind |-> r.kind, header |-> header,
                item_identifiers |-> ii.ids, items |-> r.items,
                special_space |-> "None", trace |-> r.trace]

\* the PageLayout of a successful decode
PageOf(d) ==
    [header |-> d.header, item_identifiers |-> d.item_identifiers,
     items |-> d.items, special_space |-> d.special_space]

NoDecode ==
    [tag |-> "none", kind |-> "", header |-> read_page_header(
         [i \in 0..(DEFAULT_POSTGRES_PAGE_SIZE - 1) |-> 0], "LittleEndian"),
     item_identifiers |-> <<>>, items |-> <<>>, special_space |-> "None",
     trace |-> <<>>]

-----------------------------------------------------------------------------
(* The inputs *)

Blk(lower, upper, special, lps, fill) ==
    [lower |-> lower, upper |-> upper, special |-> special, lps |-> lps, fill |-> fill]

\* Blocks of the input.  fill is the byte every row header and payload is
\* made of, so a row read anywhere in the block has t_hoff = fill.
BlockSet ==
    { Blk(24, 8192, 8192, <<>>, 0),                             \* no line pointers
      Blk(28, 8192, 8192, <<Word(0, LP_UNUSED, 0)>>, 0),        \* one Unused, length 0
      Blk(30, 8192, 8192, <<Word(0, LP_UNUSED, 0)>>, 0),        \* lower not a multiple of 4
      Blk(28, 8144, 8192, <<Word(8144, LP_NORMAL, 24)>>, 24),   \* one Normal row
      Blk(28, 8144, 8192, <<Word(8144, LP_NORMAL, 24)>>, 32),
      Blk(28, 8168, 8192, <<Word(8168, LP_NORMAL, 5)>>, 24),    \* shorter than a row header
      Blk(28, 8168, 8192, <<Word(8168, LP_DEAD, 12)>>, 32),     \* a Dead slot
      Blk(32, 8144, 8192, <<Word(0, LP_UNUSED, 3), Word(8144, LP_NORMAL, 24)>>, 24),
      Blk(32, 8168, 8192, <<Word(1, LP_REDIRECT, 0), Word(8168, LP_DEAD, 12)>>, 24),
      Blk(28, 8192, 8192, <<Word(48, LP_UNUSED, 16384)>>, 24),  \* top bit of the word set
      Blk(28, 8192, 8192, <<Word(20, LP_UNUSED, 16384)>>, 24),
      Blk(28, 8192, 8192, <<Word(0, LP_NORMAL, 16383)>>, 24),   \* runs past the block
      Blk(28, 8144, 8192, <<Word(8144, LP_NORMAL, 24)>>, 25),   \* has-null bit set
      Blk(32, 8192, 8192, <<Word(0, LP_UNUSED, 4050), Word(0, LP_DEAD, 30)>>, 24),
                                                                \* ends at the block end
      Blk(28, 0, 0, <<Word(0, LP_UNUSED, 0)>>, 0),              \* upper below lower
      Blk(24, 8192, 8000, <<>>, 0),                             \* special below upper
      Blk(20, 8192, 8192, <<>>, 0),                             \* lower inside the header
      Blk(8196, 8192, 8192, <<>>, 0) }                          \* lower beyond the block

\* lengths of the trailing chunk of the input
Tails == {0, 100}

\* counts a read may return short of what is there
ShortCounts == {40, 4096}

InputLen == DEFAULT_POSTGRES_PAGE_SIZE * Len(blocks) + tail

\* the chunk the next read draws from: the block at pos, or the trailing chunk
SourceBlock ==
    IF pos \div DEFAULT_POSTGRES_PAGE_SIZE < Len(blocks)
    THEN blocks[(pos \div DEFAULT_POSTGRES_PAGE_SIZE) + 1]
    ELSE ZeroBlock

Min(a, b) == IF a < b THEN a ELSE b

\* Read::read into an 8192-byte buffer: at the end of the input it returns
\* 0; otherwise all that fits, or fewer bytes
ReadCounts ==
    LET avail == Min(InputLen - pos, DEFAULT_POSTGRES_PAGE_SIZE)
    IN {avail} \cup {c \in ShortCounts : c < avail}

-----------------------------------------------------------------------------
(* read_all_pages *)

\* io::Result<usize> of reader.read
ReadOk(n) == [tag |-> "Ok", n |-> n]
ReadErr == [tag |-> "Err", n |-> 0]
NoRead == [tag |-> "none", n |-> 0]

NoResult == [tag |-> "none", kind |-> "", pages |-> <<>>]

\* io::Result<Vec<PageLayout>>: Ok carries the pages, Err only the error
Ok(ps) == [tag |-> "Ok", kind |-> "", pages |-> ps]
Err(kind) == [tag |-> "Err", kind |-> kind, pages |-> <<>>]
Panic == [tag |-> "Panic", kind |-> "", pages |-> <<>>]

\* the test with the comparison the wrong way round
IncompletePage_greater(n) == n > DEFAULT_POSTGRES_PAGE_SIZE

\* bytes_read != DEFAULT_POSTGRES_PAGE_SIZE
IncompletePage(n) == n # DEFAULT_POSTGRES_PAGE_SIZE

Init ==
    /\ endianness \in Endiannesses
    /\ blocks \in UNION {[1..n -> BlockSet] : n \in 0..MaxBlocks}
    /\ tail \in Tails
    /\ pos = 0
    /\ buffer = [new |-> ZeroBlock, old |-> ZeroBlock, n |-> DEFAULT_POSTGRES_PAGE_SIZE]
    /\ pages = <<>>
    /\ pc = "Reading"
    /\ bytes_read = NoRead
    /\ decoded = NoDecode
    /\ result = NoResult

\* reader.read returns Ok(0): break, then Ok(pages)
ReadEof ==
    /\ pc = "Reading"
    /\ 0 \in ReadCounts
    /\ bytes_read' = ReadOk(0)
    /\ pc' = "Done"
    /\ result' = Ok(pages)
    /\ UNCHANGED <<endianness, blocks, tail, pos, buffer, pages, decoded>>

\* reader.read returns Err(_): `while let Ok(..)` does not match, the loop
\* ends and the function returns Ok(pages)
ReadIoErr ==
    /\ pc = "Reading"
    /\ bytes_read' = ReadErr
    /\ pc' = "Done"
    /\ result' = Ok(pages)
    /\ UNCHANGED <<endianness, blocks, tail, pos, buffer, pages, decoded>>

\* reader.read returns Ok(n) with 0 < n, n != page size: Err(InvalidData)
ReadIncomplete ==
    /\ pc = "Reading"
    /\ \E n \in ReadCounts :
        /\ n # 0
        /\ IncompletePage(n)
        /\ bytes_read' = ReadOk(n)
        /\ pos' = pos + n
        /\ buffer' = [new |-> SourceBlock, old |-> buffer.new, n |-> n]
    /\ pc' = "Done"
    /\ result' = Err("InvalidData")
    /\ UNCHANGED <<endianness, blocks, tail, pages, decoded>>

\* reader.read fills the buffer: decode it through a cursor; push the page,
\* or leave with the decoder's error, or unwind with its panic
ReadPage ==
    /\ pc = "Reading"
    /\ \E n \in ReadCounts :
        /\ n # 0
        /\ ~IncompletePage(n)
        /\ bytes_read' = ReadOk(n)
        /\ pos' = pos + n
        /\ LET buf == [new |-> SourceBlock,
                       old |-> IF n < DEFAULT_POSTGRES_PAGE_SIZE
                               THEN buffer.new ELSE SourceBlock,
                       n |-> n]
               d == PageLayout_from_reader(Bytes(buf, endianness), endianness)
           IN /\ buffer' = buf
              /\ decoded' = d
              /\ IF d.tag = "Ok"
                 THEN /\ pages' = Append(pages, PageOf(d))
                      /\ UNCHANGED <<pc, result>>
                 ELSE /\ pc' = "Done"
                      /\ result' = IF d.tag = "Err" THEN Err(d.kind) ELSE Panic
                      /\ UNCHANGED pages
    /\ UNCHANGED <<endianness, blocks, tail>>

Next == ReadEof \/ ReadIoErr \/ ReadIncomplete \/ ReadPage

Spec == Init /\ [][Next]_vars

-----------------------------------------------------------------------------
(* What the file holds, read off the blocks themselves *)

\* the bytes of block b as written under byte order e
BlockBytes(b, e) == [i \in 0..(DEFAULT_POSTGRES_PAGE_SIZE - 1) |-> BlockByte(b, i, e)]

\* The 32-bit word of directory slot j of block b, read as one unit under
\* byte order e, as its halves: lo is bits 0..15, hi is bits 16..31.
SlotWord(b, j, e) ==
    LET m == BlockBytes(b, e)
        p == SizeOfPageHeaderData + ItemIdBytes * (j - 1)
    IN IF e = "LittleEndian"
       THEN [lo |-> m[p] + 256 * m[p + 1], hi |-> m[p + 2] + 256 * m[p + 3]]
       ELSE [lo |-> 256 * m[p + 2] + m[p + 3], hi |-> 256 * m[p] + m[p + 1]]

\* bits 0..14, bits 15..16 and bits 17..31 of a word
WordOffset(w) == w.lo % 32768
WordStatus(w) == (w.lo \div 32768) + 2 * (w.hi % 2)
WordLength(w) == w.hi \div 2

\* every page pushed so far was decoded from the block at its index
PageBlock(k) == blocks[k]

-----------------------------------------------------------------------------
(* C1 *)

HeaderOrdered(h) ==
    /\ SizeOfPageHeaderData <= h.pd_lower
    /\ h.pd_lower <= h.pd_upper
    /\ h.pd_upper <= h.pd_special
    /\ h.pd_special <= DEFAULT_POSTGRES_PAGE_SIZE

\* C1: every page the reader has decoded successfully has a header with
\* 24 <= lower <= upper <= special <= page_size: no page whose header breaks
\* the ordering is pushed as a decoded page.
C1_HeaderOrdering ==
    \A k \in 1..Len(pages) : HeaderOrdered(pages[k].header)

-----------------------------------------------------------------------------
(* C2 *)

\* C2: every line pointer of a decoded page is the bit decomposition of its
\* 32-bit word: offset = bits 0..14, status = bits 15..16, length = bits 17..31.
C2_LinePointerBits ==
    \A k \in 1..Len(pages) :
        \A j \in 1..Len(pages[k].item_identifiers) :
            LET w == SlotWord(PageBlock(k), j, endianness)
                id == pages[k].item_identifiers[j]
            IN /\ id.lp_off = WordOffset(w)
               /\ id.lp_flags = WordStatus(w)
               /\ id.lp_len = WordLength(w)

-----------------------------------------------------------------------------
(* C3, C4 *)

\* the rows HeapTuple::from_reader was called for in the latest page decode
\* and got as far as reading the row header of
RowsTried == {j \in 1..Len(decoded.trace) :
                 /\ decoded.trace[j].lp_flags = LP_NORMAL
                 /\ decoded.trace[j].header_read}

\* C3: a row decoded for a Normal line pointer of length L whose header has
\* hoff = H <= L has a payload of exactly L - H bytes, and decoding it moved
\* the cursor by exactly L bytes.
C3_PayloadLength ==
    \A j \in RowsTried :
        LET t == decoded.trace[j]
        IN (t.tag = "Ok" /\ t.t_hoff <= t.lp_len)
              => /\ t.payload = t.lp_len - t.t_hoff
                 /\ t.end - t.start = t.lp_len

\* C4: when a Normal line pointer declares a length L below the row's hoff H,
\* the row decoder returns a StructuralInvariantViolation error, which ends
\* the stream; it yields no row and does not panic.
C4_ShortRowIsStructuralError ==
    \A j \in RowsTried :
        LET t == decoded.trace[j]
        IN t.lp_len < t.t_hoff
              => /\ t.tag = "Err"
                 /\ pc = "Done"
                 /\ result = Err("StructuralInvariantViolation")

-----------------------------------------------------------------------------
(* C5 *)

\* the latest read was handed the trailing chunk, or the start of it
AtTrailingChunk ==
    /\ tail > 0
    /\ bytes_read.tag = "Ok"
    /\ bytes_read.n \in 1..tail
    /\ pos = DEFAULT_POSTGRES_PAGE_SIZE * Len(blocks) + bytes_read.n

\* C5: when the reader is handed the trailing chunk of 0 < k < page size
\* bytes, the call ends with the incomplete-page error (InvalidData), and no
\* page is pushed for the chunk.
C5_TruncatedTrailingChunk ==
    AtTrailingChunk
        => /\ pc = "Done"
           /\ result = Err("InvalidData")
           /\ Len(pages) = Len(blocks)

C5_Witness ==
    /\ AtTrailingChunk
    /\ Len(blocks) >= 1
    /\ bytes_read.n = tail
    /\ result.tag = "Err"

-----------------------------------------------------------------------------
(* C6, C7 *)

\* C6: when the call stops on a fatal error, what it returns holds the error
\* and the pages decoded from the earlier blocks, in input order.
C6_ErrorCarriesPages ==
    (pc = "Done" /\ result.tag = "Err") => result.pages = pages

\* C7: when a read of the byte source fails with an I/O error, the call
\* returns an error, never Ok.
C7_IoErrorPropagates ==
    bytes_read = ReadErr => (pc = "Done" /\ result.tag = "Err")

-----------------------------------------------------------------------------
(* C8 *)

\* C8: a successfully decoded page has exactly (lower - 24) / 4 line
\* pointers; with lower = 24 it has no line pointers and no rows.
C8_LinePointerCount ==
    \A k \in 1..Len(pages) :
        LET pg == pages[k]
        IN /\ pg.header.pd_lower = PageBlock(k).lower
           /\ Len(pg.item_identifiers) = (pg.header.pd_lower - 24) \div 4
           /\ pg.header.pd_lower = 24
                 => (pg.item_identifiers = <<>> /\ pg.items = <<>>)

C8_Witness ==
    /\ \E k \in 1..Len(pages) :
          pages[k].header.pd_lower = 32 /\ Len(pages[k].item_identifiers) = 2
    /\ \E k \in 1..Len(pages) :
          pages[k].header.pd_lower = 24 /\ pages[k].item_identifiers = <<>>

-----------------------------------------------------------------------------
(* C9 *)

\* the directory slots of block b (as many as the page has line pointers)
\* whose word has status Normal
NormalSlots(b, n, e) ==
    {j \in 1..n : WordStatus(SlotWord(b, j, e)) = LP_NORMAL}

\* C9: a successfully decoded page has exactly one row per slot whose status
\* is Normal; slots that are Unused, Redirect or Dead contribute no row.
C9_OneRowPerNormalSlot ==
    \A k \in 1..Len(pages) :
        Len(pages[k].items) =
            Cardinality(NormalSlots(PageBlock(k), Len(pages[k].item_identifiers),
                                    endianness))

-----------------------------------------------------------------------------
(* C10 *)

Decodable(b, e) == PageLayout_from_reader(BlockBytes(b, e), e).tag = "Ok"

\* the input is n full decodable blocks and no read of it has failed
WholeDecodableInput ==
    /\ tail = 0
    /\ \A k \in 1..Len(blocks) : Decodable(blocks[k], endianness)
    /\ bytes_read # ReadErr

\* C10: for an input of n full decodable blocks, however the byte source
\* splits the bytes across reads, the call ends in Done with Ok and exactly
\* n pages, page k decoded from block k.
C10_AllBlocksDecoded ==
    (pc = "Done" /\ WholeDecodableInput)
        => /\ result.tag = "Ok"
           /\ Len(result.pages) = Len(blocks)
           /\ \A k \in 1..Len(blocks) :
                 result.pages[k] =
                     PageOf(PageLayout_from_reader(BlockBytes(blocks[k], endianness),
                                                   endianness))

-----------------------------------------------------------------------------
(* C11 *)

\* Infomask::HEAP_HASNULL = 0x0001 and Infomask2::HEAP_NATTS_MASK = 0x07FF
HasNull(h) == h.t_infomask % 2 = 1
AttributeCount(h) == h.t_infomask2 % 2048

\* ceil(attribute-count / 8)
NullBitmapBytes(h) == (AttributeCount(h) + 7) \div 8

\* the fields of a decoded row: HeapTuple { header, data }
HasNullBitmap(row) == "null_bitmap" \in DOMAIN row

\* C11: a decoded row whose header has the has-null flag carries a null
\* bitmap of ceil(attribute-count / 8) bytes, which fill the gap between the
\* 23-byte fixed header and hoff (a row where they disagree is a structural
\* error, not a decoded row); a row without the flag carries none.
C11_NullBitmap ==
    \A k \in 1..Len(pages) :
        \A j \in 1..Len(pages[k].items) :
            LET row == pages[k].items[j]
            IN IF HasNull(row.header)
               THEN /\ HasNullBitmap(row)
                    /\ Len(row.null_bitmap) = NullBitmapBytes(row.header)
                    /\ NullBitmapBytes(row.header)
                          = row.header.t_hoff - HeapTupleHeaderBytesRead
               ELSE ~HasNullBitmap(row)

-----------------------------------------------------------------------------
(* C12 *)

\* what the decoder makes of block b alone under byte order e
DecodeOfBlock(b, e) == PageLayout_from_reader(BlockBytes(b, e), e)

\* the bytes the loop reads for a slot: the row header and data_length bytes
\* for a NORMAL slot of at least the header size, lp_len bytes for a skip
BytesNeeded(t) ==
    IF t.lp_flags = LP_NORMAL
    THEN IF t.lp_len < SizeOfHeapTupleHeaderData
         THEN HeapTupleHeaderBytesRead
         ELSE HeapTupleHeaderBytesRead + data_length(t.lp_len)
    ELSE t.lp_len

====
